---- MODULE Spec2Model ----
(***************************************************************************)
(* State-machine model of PySideCommons' table models (src/src/models.py): *)
(* ModelBase -> CheckModelBase -> InfoModelBase -> WorkModelBase and the   *)
(* _StatusBridge created by WorkModelBase.info_and_signal_of_checked, and  *)
(* of the thread runners (src/src/workers.py) with the ExceptionBridge     *)
(* they report to (src/src/exception_bridge.py). plain is a table of the   *)
(* base class ModelBase on its own.                                        *)
(*                                                                         *)
(* Row numbers are 0-based as in the source; the row sequences of the      *)
(* model are 1-based, so row k of the source is items[k + 1].              *)
(***************************************************************************)
EXTENDS Integers, Sequences, FiniteSets, TLC

VARIABLES
    items,               \* QStandardItemModel rows: check item + status item
    infos,               \* InfoModelBase._infos
    successed_row,       \* WorkModelBase.__successed_row
    disable_successed,   \* WorkModelBase.__disable_successed
    default_check_state, \* CheckModelBase._default_check_state
    batch,               \* infos list last returned by info_and_signal_of_checked
    functions,           \* _StatusBridge.__functions of the bridge last returned
    queue,               \* queued _signal emissions not yet delivered
    nextId,              \* identity of the next QStandardItem row created
    err,                 \* exception raised by the last call ("none" if none)
    since,               \* what was called since the last dispatch
    last,                \* the last call, its arguments and the rows before it
    ended,               \* slots connected to _ThreadRunnerBase.ended
    err_raised,          \* slots connected to _ThreadRunnerBase.err_raised
    err_code,            \* _ThreadRunnerBase._err_code
    args,                \* _ThreadRunnerBase._args
    thread,              \* the QThread: "idle", "started" or "running"
    run_args,            \* the arguments run() handed to runner
    cur,                 \* the start() call that started the thread
    events,              \* emissions queued for the owning thread
    instance,            \* ExceptionBridge._instance
    nstart,              \* number of start() calls made
    hist,                \* per start() call: what it was given, what became of it
    log,                 \* callbacks invoked, warnings, failures out of run()
    plain                \* rows of a ModelBase table, each the data it shows

vars == <<items, infos, successed_row, disable_successed, default_check_state,
          batch, functions, queue, nextId, err, since, last,
          ended, err_raised, err_code, args, thread, run_args, cur, events,
          instance, nstart, hist, log, plain>>

table_vars == <<items, infos, successed_row, disable_successed,
                default_check_state, batch, functions, queue, nextId, err,
                since, last>>

worker_vars == <<ended, err_raised, err_code, args, thread, run_args, cur,
                 events, instance, nstart, hist, log>>

\* ------------------------------------------------------------------ bounds
MaxIds == 2        \* rows created over one run
MaxQueue == 1      \* status updates in flight
MaxStarts == 2     \* start() calls on the runner over one run
MaxSends == 2      \* status updates the unit of work of one run issues
MaxBatches == 1    \* batches handed to the runner over one run
MaxRows == 3       \* rows of the ModelBase table, and of a set_data argument

\* --------------------------------------------------------------- constants
Unchecked == "Unchecked"
Checked == "Checked"
CheckStates == {Unchecked, Checked}
PartiallyChecked == "PartiallyChecked"
\* Every Qt.CheckState: add_data(chk_state=..) and the default_check_state
\* setter accept each of them.
QtCheckStates == {Unchecked, PartiallyChecked, Checked}

WAIT_TEXT == "wait"
ResultEntries == {<<TRUE, "ok">>, <<FALSE, "fail">>}
ProgressTexts == {"run"}
NoneArg == "None"
BoolArgs == {"True", "False"}

\* The payloads a caller hands to add_data for the row created as id: opaque
\* values, one of its own for every row.
Payloads(id) == {<<"info", id>>}

\* ----------------------------------------------------------------- helpers
RemoveAt(s, i) == SubSeq(s, 1, i - 1) \o SubSeq(s, i + 1, Len(s))

Rows(its) == 0 .. (Len(its) - 1)

Ids(its) == {its[i].id : i \in 1 .. Len(its)}

\* The row (0-based) at which the item of identity id sits; -1 if gone.
RowOf(its, id) ==
    IF id \in Ids(its)
    THEN (CHOOSE i \in 1 .. Len(its) : its[i].id = id) - 1
    ELSE -1

\* A table: the part of the state that the model classes' methods change,
\* the exception a method raised, and the rows a set_result call has
\* applied an entry to.
Table(its, inf, suc) ==
    [items |-> its, infos |-> inf, succ |-> suc, err |-> "none", hit |-> {}]

\* ------------------------------------------------------- ModelBase / Check
\* CheckModelBase.add_data under WorkModelBase.add_data: one checkable
\* item with the given state and one status item showing _WAIT_TEXT.
\* id is the identity of the row's items; pay, res and ever record the payload
\* the row was added with, the results entry last applied to it (<<>> if
\* none), and whether a success was ever applied to it.
NewRow(id, chk_enabled, chk_state, info) ==
    [id |-> id, chk |-> chk_state, en |-> chk_enabled, text |-> WAIT_TEXT,
     pay |-> info, res |-> <<>>, ever |-> FALSE]

\* ModelBase.del_row: QStandardItemModel.removeRow(k) removes row k when it
\* exists and changes nothing (returning False) otherwise.
ModelBase_del_row(its, k) ==
    IF k \in Rows(its) THEN RemoveAt(its, k + 1) ELSE its

\* InfoModelBase.del_row: the row first, then `del self._infos[k]`, which
\* counts a negative k from the end and raises IndexError out of range.
InfoModelBase_del_row(t, k) ==
    LET its == ModelBase_del_row(t.items, k)
        n == Len(t.infos)
    IN  IF k >= 0 /\ k < n
        THEN [t EXCEPT !.items = its, !.infos = RemoveAt(t.infos, k + 1)]
        ELSE IF k < 0 /\ k >= -n
        THEN [t EXCEPT !.items = its, !.infos = RemoveAt(t.infos, n + k + 1)]
        ELSE [t EXCEPT !.items = its, !.err = "IndexError"]

\* The renumbering of __successed_row in WorkModelBase.del_row.
Renumber(succ, k) == {IF x < k THEN x ELSE x - 1 : x \in succ}

\* WorkModelBase.del_row: super().del_row(k), then the renumbering (not
\* reached when super().del_row raised).
WorkModelBase_del_row(t, k) ==
    LET u == InfoModelBase_del_row(t, k)
    IN  IF u.err # "none" THEN u
        ELSE [u EXCEPT !.succ = Renumber(t.succ, k)]

\* CheckModelBase.checked_row
checked_row(its) == {k \in Rows(its) : its[k + 1].chk = Checked}

\* A loop that reports the row numbers the removed rows had at call time.
RECURSIVE del_selected_loop_call_time(_, _, _, _)
del_selected_loop_call_time(t, k, length, deleted_row) ==
    IF k < length /\ t.err = "none"
    THEN IF t.items[k + 1].chk = Checked
         THEN del_selected_loop_call_time(WorkModelBase_del_row(t, k), k,
                                          length - 1,
                                          Append(deleted_row, k + Len(deleted_row)))
         ELSE del_selected_loop_call_time(t, k + 1, length, deleted_row)
    ELSE [t |-> t, deleted |-> deleted_row]

\* CheckModelBase.del_selected: the scan-and-compact loop; res.deleted is
\* the returned list.
RECURSIVE del_selected_loop(_, _, _, _)
del_selected_loop(t, k, length, deleted_row) ==
    IF k < length /\ t.err = "none"
    THEN IF t.items[k + 1].chk = Checked
         THEN del_selected_loop(WorkModelBase_del_row(t, k), k, length - 1,
                                Append(deleted_row, k))
         ELSE del_selected_loop(t, k + 1, length, deleted_row)
    ELSE [t |-> t, deleted |-> deleted_row]

del_selected(t) == del_selected_loop(t, 0, Len(t.items), <<>>)

\* A select_all that checks the disabled rows too.
select_all_every(its) ==
    [i \in 1 .. Len(its) |-> [its[i] EXCEPT !.chk = Checked]]

\* CheckModelBase.select_all
select_all(its) ==
    [i \in 1 .. Len(its) |->
        IF its[i].en THEN [its[i] EXCEPT !.chk = Checked] ELSE its[i]]

\* A reverse_selection that flips the disabled rows too.
reverse_selection_every(its) ==
    [i \in 1 .. Len(its) |->
        [its[i] EXCEPT !.chk = IF @ = Checked THEN Unchecked ELSE Checked]]

\* CheckModelBase.reverse_selection
reverse_selection(its) ==
    [i \in 1 .. Len(its) |->
        IF its[i].en
        THEN [its[i] EXCEPT !.chk = IF @ = Checked THEN Unchecked ELSE Checked]
        ELSE its[i]]

\* CheckModelBase.clear_selection
clear_selection(its) ==
    [i \in 1 .. Len(its) |-> [its[i] EXCEPT !.chk = Unchecked]]

\* InfoModelBase.clear under WorkModelBase.clear
clear(t) == [t EXCEPT !.items = <<>>, !.infos = <<>>, !.succ = {}]

\* CheckModelBase.chk_enabled_cnt
chk_enabled_cnt(its) == Cardinality({k \in Rows(its) : its[k + 1].en})

\* CheckModelBase.chk_selected_cnt: the same loop, testing isEnabled()
chk_selected_cnt(its) == Cardinality({k \in Rows(its) : its[k + 1].en})

\* CheckModelBase.all_selected
all_selected(its) ==
    IF Len(its) = 0 THEN FALSE
    ELSE ~ \E k \in Rows(its) : its[k + 1].chk = Unchecked /\ its[k + 1].en

\* The default_check_state setter: a bool, a Qt.CheckState, or TypeError.
default_check_state_setter(old, value) ==
    IF value \in BoolArgs
    THEN [state |-> IF value = "True" THEN Checked ELSE Unchecked, err |-> "none"]
    ELSE IF value \in QtCheckStates
    THEN [state |-> value, err |-> "none"]
    ELSE [state |-> old, err |-> "TypeError"]

\* ModelBase.set_data on an InfoModelBase / WorkModelBase: self.clear(), then
\* self.add_data(data) for the first row, which lacks the infos argument.
set_data(t, datas) ==
    IF Len(datas) = 0 THEN clear(t)
    ELSE [clear(t) EXCEPT !.err = "TypeError"]

\* ------------------------------------------------------------ WorkModelBase
\* The loop of info_and_signal_of_checked over enumerate(self._infos): the
\* entry (row, *info) of every row found in checked_row, in row order.
RECURSIVE batch_loop(_, _, _, _)
batch_loop(its, inf, row, out) ==
    IF row >= Len(inf) THEN out
    ELSE batch_loop(its, inf, row + 1,
                    IF row \in checked_row(its)
                    THEN Append(out, <<row>> \o inf[row + 1])
                    ELSE out)

info_of_checked(its, inf) == batch_loop(its, inf, 0, <<>>)

WorkIds(b) == {b[j][1] : j \in 1 .. Len(b)}

\* A bridge that registers the callbacks under ids counted from 1.
signal_of_checked_from_one(its, inf) ==
    [id \in {row + 1 : row \in WorkIds(info_of_checked(its, inf))} |->
        its[id].id]

\* bridge.register_func(row, self.item(row, last_col).setText): the work id
\* is the row number, the callback is bound to the row's status item.
signal_of_checked(its, inf) ==
    [row \in WorkIds(info_of_checked(its, inf)) |-> its[row + 1].id]

\* A policy under which an argument of False does not override the default.
PolicyOr(arg, default) == arg = "True" \/ default

\* The policy in effect in set_result: the argument unless it is None.
Policy(arg, default) == IF arg = NoneArg THEN default ELSE arg = "True"

\* One visit of set_result's loop to a checked row: results[result_index].
apply_result(r, entry, disable) ==
    [r EXCEPT !.chk = IF entry[1] THEN Unchecked ELSE @,
              !.en = IF entry[1] /\ disable THEN FALSE ELSE @,
              !.text = entry[2],
              !.res = entry,
              !.ever = @ \/ entry[1]]

\* A loop that never advances result_index: every checked row is handed
\* results[0].
RECURSIVE set_result_loop_first_only(_, _, _, _, _)
set_result_loop_first_only(t, row, result_index, results, disable) ==
    IF row >= Len(t.items) THEN t
    ELSE IF t.items[row + 1].chk # Checked
    THEN set_result_loop_first_only(t, row + 1, result_index, results, disable)
    ELSE IF result_index >= Len(results)
    THEN [t EXCEPT !.err = "IndexError"]
    ELSE LET entry == results[result_index + 1]
             u == [t EXCEPT
                     !.items[row + 1] = apply_result(@, entry, disable),
                     !.succ = IF entry[1] THEN @ \cup {row} ELSE @,
                     !.hit = @ \cup {row}]
         IN  set_result_loop_first_only(u, row + 1, result_index, results,
                                        disable)

\* WorkModelBase.set_result: the loop over range(self.rowCount()); results
\* are consumed by the rows that are checked now, and results[result_index]
\* raises IndexError when they run out, leaving the earlier rows changed.
RECURSIVE set_result_loop(_, _, _, _, _)
set_result_loop(t, row, result_index, results, disable) ==
    IF row >= Len(t.items) THEN t
    ELSE IF t.items[row + 1].chk # Checked
    THEN set_result_loop(t, row + 1, result_index, results, disable)
    ELSE IF result_index >= Len(results)
    THEN [t EXCEPT !.err = "IndexError"]
    ELSE LET entry == results[result_index + 1]
             u == [t EXCEPT
                     !.items[row + 1] = apply_result(@, entry, disable),
                     !.succ = IF entry[1] THEN @ \cup {row} ELSE @,
                     !.hit = @ \cup {row}]
         IN  set_result_loop(u, row + 1, result_index + 1, results, disable)

set_result(t, results, arg, default) ==
    set_result_loop(t, 0, 0, results, Policy(arg, default))

\* WorkModelBase.del_successed
RECURSIVE del_successed_loop(_, _, _)
del_successed_loop(t, row, row_count) ==
    IF row < row_count /\ t.err = "none"
    THEN IF row \in t.succ
         THEN del_successed_loop(WorkModelBase_del_row(t, row), row, row_count - 1)
         ELSE del_successed_loop(t, row + 1, row_count)
    ELSE t

del_successed(t) == del_successed_loop(t, 0, Len(t.items))

\* ------------------------------------------------------------ _StatusBridge
\* _StatusBridge.__send_info run for one queued emission m: the callback
\* registered for the work id sets the text of the status item it is bound
\* to. outcome picks what a call on an item whose row has been removed does.
send_info(its, m, outcome) ==
    IF m.id \notin DOMAIN m.bridge
    THEN [items |-> its, err |-> "KeyError"]
    ELSE LET row == RowOf(its, m.bridge[m.id])
         IN  IF row >= 0
             THEN [items |-> [its EXCEPT ![row + 1].text = m.text], err |-> "none"]
             ELSE [items |-> its, err |-> outcome]

\* Calling setText of an item deleted with its row: the binding raises
\* RuntimeError, or the call writes to an item no longer in the table.
DanglingOutcomes == {"RuntimeError", "none"}

\* -------------------------------------------------------------------- state
\* The results sequences handed to set_result for the batch: one entry per
\* batch entry, or one entry short, or one entry too many.
ResultsOfLen(n) == [1 .. n -> ResultEntries]

ResultSeqs ==
    UNION {ResultsOfLen(n) : n \in (Len(batch) - 1) .. (Len(batch) + 1)}

T == Table(items, infos, successed_row)

\* The record of a call: its name, the length of the results handed to
\* set_result or of the list del_selected returned, the disable_successed
\* argument of set_result, the rows it applied an entry
\* to, and the enabled flags of the rows before it.
Call(op, k) ==
    [op |-> op, k |-> k, arg |-> NoneArg, hit |-> {}, en |-> <<>>]

\* since after a call of the given kind: "idle" before the first dispatch,
\* "none" right after a dispatch, then the one kind of call made since
\* ("del_row", "flags", or "applied" for a single set_result), else "mixed".
Edit(kind) ==
    IF since = "idle" THEN "idle"
    ELSE IF since = "none" \/ (since = kind /\ kind # "applied") THEN kind
    ELSE "mixed"

Init ==
    /\ items = <<>>
    /\ infos = <<>>
    /\ successed_row = {}
    /\ disable_successed \in BOOLEAN
    /\ default_check_state = Checked
    /\ batch = <<>>
    /\ functions = <<>>
    /\ queue = <<>>
    /\ nextId = 1
    /\ err = "none"
    /\ since = "idle"
    /\ last = Call("init", 0)
    /\ ended = <<>>
    /\ err_raised = <<>>
    /\ err_code = <<>>
    /\ args = <<>>
    /\ thread = "idle"
    /\ run_args = <<>>
    /\ cur = 0
    /\ events = <<>>
    /\ instance = "none"
    /\ nstart = 0
    /\ hist = <<>>
    /\ log = <<>>
    /\ plain = <<>>

Store(t) ==
    /\ items' = t.items
    /\ infos' = t.infos
    /\ successed_row' = t.succ
    /\ err' = t.err

\* WorkModelBase.add_data(to_display, infos, chk_enabled=.., chk_state=..)
\* with chk_state left out or one of the given states
AddDataOf(states) ==
    /\ nextId <= MaxIds
    /\ \E chk_enabled \in BOOLEAN, chk_state \in {NoneArg} \cup states,
          info \in Payloads(nextId) :
        LET state == IF chk_state = NoneArg THEN default_check_state ELSE chk_state
        IN  /\ items' = Append(items, NewRow(nextId, chk_enabled, state, info))
            /\ infos' = Append(infos, info)
            /\ last' = Call("add_data", 0)
    /\ nextId' = nextId + 1
    /\ err' = "none"
    /\ since' = Edit("flags")
    /\ UNCHANGED <<successed_row, disable_successed, default_check_state,
                   batch, functions, queue>>
    /\ UNCHANGED <<worker_vars, plain>>

AddData == AddDataOf(CheckStates)

\* WorkModelBase.del_row(k), k a row number of the table
DelRow ==
    /\ \E k \in Rows(items) :
        /\ Store(WorkModelBase_del_row(T, k))
        /\ last' = Call("del_row", 0)
    /\ since' = Edit("del_row")
    /\ UNCHANGED <<disable_successed, default_check_state, batch, functions,
                   queue, nextId>>
    /\ UNCHANGED <<worker_vars, plain>>

\* CheckModelBase.del_selected()
DelSelected ==
    /\ items # <<>>
    /\ Store(del_selected(T).t)
    /\ last' = Call("del_selected", Len(del_selected(T).deleted))
    /\ since' = Edit("mixed")
    /\ UNCHANGED <<disable_successed, default_check_state, batch, functions,
                   queue, nextId>>
    /\ UNCHANGED <<worker_vars, plain>>

\* WorkModelBase.del_successed()
DelSuccessed ==
    /\ items # <<>>
    /\ Store(del_successed(T))
    /\ last' = Call("del_successed", 0)
    /\ since' = Edit("mixed")
    /\ UNCHANGED <<disable_successed, default_check_state, batch, functions,
                   queue, nextId>>
    /\ UNCHANGED <<worker_vars, plain>>

\* WorkModelBase.clear()
Clear ==
    /\ items # <<>>
    /\ Store(clear(T))
    /\ last' = Call("clear", 0)
    /\ since' = Edit("mixed")
    /\ UNCHANGED <<disable_successed, default_check_state, batch, functions,
                   queue, nextId>>
    /\ UNCHANGED <<worker_vars, plain>>

\* CheckModelBase.select_all()
SelectAll ==
    /\ items # <<>>
    /\ items' = select_all(items)
    /\ err' = "none"
    /\ last' = Call("select_all", 0)
    /\ since' = Edit("flags")
    /\ UNCHANGED <<infos, successed_row, disable_successed, default_check_state,
                   batch, functions, queue, nextId>>
    /\ UNCHANGED <<worker_vars, plain>>

\* CheckModelBase.reverse_selection()
ReverseSelection ==
    /\ items # <<>>
    /\ items' = reverse_selection(items)
    /\ err' = "none"
    /\ last' = Call("reverse_selection", 0)
    /\ since' = Edit("flags")
    /\ UNCHANGED <<infos, successed_row, disable_successed, default_check_state,
                   batch, functions, queue, nextId>>
    /\ UNCHANGED <<worker_vars, plain>>

\* CheckModelBase.clear_selection()
ClearSelection ==
    /\ items # <<>>
    /\ items' = clear_selection(items)
    /\ err' = "none"
    /\ last' = Call("clear_selection", 0)
    /\ since' = Edit("flags")
    /\ UNCHANGED <<infos, successed_row, disable_successed, default_check_state,
                   batch, functions, queue, nextId>>
    /\ UNCHANGED <<worker_vars, plain>>

\* WorkModelBase.info_and_signal_of_checked
Dispatch ==
    /\ items # <<>>
    /\ batch' = info_of_checked(items, infos)
    /\ functions' = signal_of_checked(items, infos)
    /\ err' = "none"
    /\ since' = "none"
    /\ last' = Call("dispatch", 0)
    /\ UNCHANGED <<items, infos, successed_row, disable_successed,
                   default_check_state, queue, nextId>>
    /\ UNCHANGED <<worker_vars, plain>>

\* WorkModelBase.set_result(results, disable_successed=arg), called with the
\* results of a dispatched batch; after calls of more than one kind the
\* caller dispatches anew before it applies results.
SetResultCall(results, arg) ==
    /\ since \notin {"idle", "mixed"}
    /\ Store(set_result(T, results, arg, disable_successed))
    /\ last' = [Call("set_result", Len(results)) EXCEPT
                  !.arg = arg,
                  !.hit = set_result(T, results, arg, disable_successed).hit,
                  !.en = [i \in 1 .. Len(items) |-> items[i].en]]
    /\ since' = Edit("applied")
    /\ UNCHANGED <<disable_successed, default_check_state, batch, functions,
                   queue, nextId>>
    /\ UNCHANGED <<worker_vars, plain>>

SetResult ==
    \E results \in ResultSeqs, arg \in {NoneArg} \cup BoolArgs :
        SetResultCall(results, arg)

\* _StatusBridge.__call__((work_id, text)) from the worker: a queued emission
Send ==
    /\ Len(queue) < MaxQueue
    /\ \E id \in DOMAIN functions, text \in ProgressTexts :
        queue' = Append(queue, [bridge |-> functions, id |-> id, text |-> text])
    /\ UNCHANGED <<items, infos, successed_row, disable_successed,
                   default_check_state, batch, functions, nextId, err, since,
                   last>>
    /\ UNCHANGED <<worker_vars, plain>>

\* The owning thread's event loop delivers the emission to __send_info
Deliver ==
    /\ queue # <<>>
    /\ \E outcome \in DanglingOutcomes :
        LET r == send_info(items, Head(queue), outcome)
        IN  /\ items' = r.items
            /\ err' = r.err
    /\ queue' = Tail(queue)
    /\ last' = Call("deliver", Head(queue).id)
    /\ UNCHANGED <<infos, successed_row, disable_successed, default_check_state,
                   batch, functions, nextId, since>>
    /\ UNCHANGED <<worker_vars, plain>>

Next ==
    \/ AddData
    \/ DelRow
    \/ DelSelected
    \/ DelSuccessed
    \/ Clear
    \/ SelectAll
    \/ ReverseSelection
    \/ ClearSelection
    \/ Dispatch
    \/ SetResult

Spec == Init /\ [][Next]_vars

\* The table under edits while the worker reports through the bridge.
NextStatus ==
    \/ AddData
    \/ DelRow
    \/ Clear
    \/ Dispatch
    \/ Send
    \/ Deliver

SpecStatus == Init /\ [][NextStatus]_vars

\* ------------------------------------------------- selection and payloads
\* add_data with any Qt.CheckState
AddDataQt == AddDataOf(QtCheckStates)

\* model.default_check_state = value
SetDefaultCheckState ==
    /\ \E value \in BoolArgs \cup QtCheckStates \cup {NoneArg} :
        /\ default_check_state' =
              default_check_state_setter(default_check_state, value).state
        /\ err' = default_check_state_setter(default_check_state, value).err
    /\ last' = Call("default_check_state", 0)
    /\ UNCHANGED <<items, infos, successed_row, disable_successed, batch,
                   functions, queue, nextId, since>>
    /\ UNCHANGED <<worker_vars, plain>>

\* WorkModelBase.del_row(k), k any int: a row number, a negative number or
\* a number past the last row
DelRowAny ==
    /\ \E k \in (0 - Len(items) - 1) .. Len(items) :
        /\ Store(WorkModelBase_del_row(T, k))
        /\ last' = Call("del_row", k)
    /\ since' = Edit("del_row")
    /\ UNCHANGED <<disable_successed, default_check_state, batch, functions,
                   queue, nextId>>
    /\ UNCHANGED <<worker_vars, plain>>

\* ModelBase.set_data(datas) on the WorkModelBase
SetData ==
    /\ \E datas \in {<<>>, <<"d">>} :
        /\ Store(set_data(T, datas))
        /\ last' = Call("set_data", Len(datas))
    /\ since' = Edit("mixed")
    /\ UNCHANGED <<disable_successed, default_check_state, batch, functions,
                   queue, nextId>>
    /\ UNCHANGED <<worker_vars, plain>>

NextCheck ==
    \/ AddDataQt
    \/ SetDefaultCheckState
    \/ DelRowAny
    \/ DelSelected
    \/ Clear
    \/ SetData
    \/ SelectAll
    \/ ReverseSelection
    \/ ClearSelection

SpecCheck == Init /\ [][NextCheck]_vars

\* ------------------------------------------------------------ thread runner
\* The end callback handed to the n-th start() call, the err functions a
\* caller hands over (the same function may be handed to several calls),
\* the err code and the arguments of the n-th call, and what runner returns
\* for given arguments.
EndFunc(n) == <<"end", n>>
ErrFuncs == {<<"f", 0>>, <<"g", 0>>}
NoFunc == <<"none", 0>>
Code(n) == <<"code", n>>
StartArgs(n) == <<"args", n>>
Result(a) == <<"result", a[2]>>
None == <<>>

\* A start() that connects its end callback without disconnecting.
ended_connect_keep(slots, end) ==
    IF end = NoFunc THEN slots ELSE Append(slots, end)

\* start(): self.ended.disconnect(), then connect(kwargs.pop('end')) if given
ended_connect(slots, end) ==
    IF end = NoFunc THEN <<>> ELSE <<end>>

\* start(): self.err_raised.connect(err['func']) if err is given; nothing is
\* ever disconnected from err_raised.
err_connect(slots, func) ==
    IF func = NoFunc THEN slots ELSE Append(slots, func)

\* An emit that posts its event twice.
emit_twice(sig, slots, val, run, at) ==
    IF slots = <<>> THEN <<>>
    ELSE <<[sig |-> sig, slots |-> slots, val |-> val, run |-> run, at |-> at],
           [sig |-> sig, slots |-> slots, val |-> val, run |-> run, at |-> at]>>

\* signal.emit(val) in the worker thread: one queued call of every slot
\* connected at that moment, run by the owning thread's event loop. run and
\* at record the run that emitted and the latest start() call at that time.
emit(sig, slots, val, run, at) ==
    IF slots = <<>> THEN <<>>
    ELSE <<[sig |-> sig, slots |-> slots, val |-> val, run |-> run, at |-> at]>>

\* The calls the event loop makes for one event: every slot in order.
invoke(e) ==
    [i \in 1 .. Len(e.slots) |->
        [kind |-> e.sig, cb |-> e.slots[i], val |-> e.val, run |-> e.run,
         at |-> e.at]]

\* ExceptionBridge(): __new__ raises ValueError when there is no instance, no
\* parent is given and stdout is no terminal; else it makes the instance
\* (console mode without a parent) or returns the one there is.
ExceptionBridge_new(inst, tty) ==
    IF inst = "none"
    THEN IF tty THEN [inst |-> "console", err |-> "none"]
                ELSE [inst |-> "none", err |-> "ValueError"]
    ELSE [inst |-> inst, err |-> "none"]

\* _ThreadRunnerBase.start(*args, end=.., err={'code': .., 'func': ..})
Start ==
    /\ nstart < MaxStarts
    /\ \E end \in BOOLEAN, func \in {NoFunc} \cup ErrFuncs :
        LET n == nstart + 1
            active == thread # "idle"
            seen == IF active
                    THEN [hist EXCEPT ![nstart].superseded = TRUE]
                    ELSE hist
        IN  /\ ended' = ended_connect(ended, IF end THEN EndFunc(n) ELSE NoFunc)
            /\ err_raised' = err_connect(err_raised, func)
            /\ err_code' = IF func = NoFunc THEN None ELSE Code(n)
            /\ args' = StartArgs(n)
            /\ thread' = IF active THEN thread ELSE "started"
            /\ cur' = IF active THEN cur ELSE n
            /\ hist' = Append(seen, [end |-> end, err |-> func,
                                     launched |-> ~active,
                                     superseded |-> FALSE,
                                     outcome |-> "none"])
            /\ nstart' = n
    /\ UNCHANGED <<run_args, events, instance, log>>
    /\ UNCHANGED <<table_vars, plain>>

\* run(): the call self.runner(*self._args, **self._kwargs) reads the
\* arguments
RunBegin ==
    /\ thread = "started"
    /\ thread' = "running"
    /\ run_args' = args
    /\ UNCHANGED <<ended, err_raised, err_code, args, cur, events, instance,
                   nstart, hist, log>>
    /\ UNCHANGED <<table_vars, plain>>

\* run(): runner returned: self.ended.emit(result), and the thread ends
RunReturn ==
    /\ thread = "running"
    /\ events' = events \o emit("ended", ended, Result(run_args), cur, nstart)
    /\ hist' = [hist EXCEPT ![cur].outcome = "returned"]
    /\ thread' = "idle"
    /\ UNCHANGED <<ended, err_raised, err_code, args, run_args, cur, instance,
                   nstart, log>>
    /\ UNCHANGED <<table_vars, plain>>

\* run(): runner raised: ExceptionBridge().warning(..), then
\* err_raised.emit(self._err_code) unless the code is None; a ValueError of
\* ExceptionBridge() leaves run() from inside the except block
RunRaise ==
    /\ thread = "running"
    /\ \E tty \in BOOLEAN :
        LET b == ExceptionBridge_new(instance, tty)
        IN  /\ instance' = b.inst
            /\ IF b.err # "none"
               THEN /\ log' = Append(log, [kind |-> "escape", cb |-> NoFunc,
                                           val |-> None, run |-> cur,
                                           at |-> nstart])
                    /\ events' = events
                    /\ hist' = [hist EXCEPT ![cur].outcome = "escaped"]
               ELSE /\ log' = Append(log, [kind |-> "warning", cb |-> NoFunc,
                                           val |-> None, run |-> cur,
                                           at |-> nstart])
                    /\ events' = events \o
                          (IF err_code # None
                           THEN emit("err_raised", err_raised, err_code, cur,
                                     nstart)
                           ELSE <<>>)
                    /\ hist' = [hist EXCEPT ![cur].outcome = "raised"]
    /\ thread' = "idle"
    /\ UNCHANGED <<ended, err_raised, err_code, args, run_args, cur, nstart>>
    /\ UNCHANGED <<table_vars, plain>>

\* The owning thread's event loop runs the slots of the next queued emission
EventLoop ==
    /\ events # <<>>
    /\ log' = log \o invoke(Head(events))
    /\ events' = Tail(events)
    /\ UNCHANGED <<ended, err_raised, err_code, args, thread, run_args, cur,
                   instance, nstart, hist>>
    /\ UNCHANGED <<table_vars, plain>>

\* The application makes the bridge with its main window: ExceptionBridge(parent)
InitBridge ==
    /\ instance # "gui"
    /\ instance' = "gui"
    /\ UNCHANGED <<ended, err_raised, err_code, args, thread, run_args, cur,
                   events, nstart, hist, log>>
    /\ UNCHANGED <<table_vars, plain>>

NextWork ==
    \/ Start
    \/ RunBegin
    \/ RunReturn
    \/ RunRaise
    \/ EventLoop
    \/ InitBridge

SpecWork == Init /\ [][NextWork]_vars

\* The thread is scheduled, the unit of work ends, and the event loop of the
\* owning thread runs.
SpecWorkFair ==
    /\ Init
    /\ [][NextWork]_vars
    /\ WF_vars(RunBegin)
    /\ WF_vars(RunReturn \/ RunRaise)
    /\ WF_vars(EventLoop)

\* ------------------------------------------------- a batch on the runner
\* The application dispatches the checked rows, starts the runner with the
\* batch and its bridge, the unit of work reports progress through the
\* bridge and returns one result per batch entry, and the end callback
\* hands the results to set_result. The emissions of the bridge and of the
\* runner are queued for the same owning thread: events holds both. The
\* application keeps one batch in flight: it dispatches and starts the
\* runner when the thread is idle and no emission is waiting.
Quiet == thread = "idle" /\ events = <<>>

\* add_data between batches
Populate ==
    /\ Quiet
    /\ AddData

\* info_and_signal_of_checked for the next batch
DispatchBatch ==
    /\ Quiet
    /\ last.op # "dispatch"
    /\ Dispatch

\* The text of the n-th status update a unit of work issues.
StepText(n) == <<"s1", "s2", "s3", "s4">>[n]

\* A unit of work that goes on reporting after it has returned.
may_send_always(th) == TRUE

\* The unit of work calls the bridge while run() executes runner.
may_send(th) == th = "running"

\* A queue that puts a new event in front of the waiting ones.
post_front(q, e) == <<e>> \o q

\* A queued emission is posted behind the events waiting for the thread.
post(q, e) == Append(q, e)

\* runner.start(infos, bridge, end=.., err={'code': .., 'func': ..}) with the
\* batch and the bridge last returned by info_and_signal_of_checked
StartBatch ==
    /\ nstart < MaxBatches
    /\ Quiet
    /\ last.op = "dispatch"
    /\ LET n == nstart + 1
           active == thread # "idle"
           seen == IF active
                   THEN [hist EXCEPT ![nstart].superseded = TRUE]
                   ELSE hist
       IN  /\ ended' = ended_connect(ended, EndFunc(n))
           /\ err_raised' = err_connect(err_raised, <<"f", 0>>)
           /\ err_code' = Code(n)
           /\ args' = StartArgs(n) \o <<batch, functions>>
           /\ thread' = IF active THEN thread ELSE "started"
           /\ cur' = IF active THEN cur ELSE n
           /\ hist' = Append(seen, [end |-> TRUE, err |-> <<"f", 0>>,
                                    launched |-> ~active,
                                    superseded |-> FALSE,
                                    outcome |-> "none", sent |-> 0])
           /\ nstart' = n
    /\ UNCHANGED <<run_args, events, instance, log>>
    /\ UNCHANGED <<table_vars, plain>>

\* The unit of work calls bridge((work_id, text)): _signal.emit, queued
WorkerSend ==
    /\ may_send(thread)
    /\ Len(run_args) = 4
    /\ hist[cur].sent < MaxSends
    /\ \E id \in DOMAIN run_args[4] :
        LET no == hist[cur].sent + 1
        IN  /\ events' = post(events, [sig |-> "status", bridge |-> run_args[4],
                                       id |-> id, text |-> StepText(no),
                                       run |-> cur, at |-> no])
            /\ hist' = [hist EXCEPT ![cur].sent = no]
    /\ UNCHANGED <<ended, err_raised, err_code, args, thread, run_args, cur,
                   instance, nstart, log>>
    /\ UNCHANGED <<table_vars, plain>>

\* run(): runner returned one result per batch entry: self.ended.emit(result)
BatchReturn ==
    /\ thread = "running"
    /\ \E results \in ResultsOfLen(Len(run_args[3])) :
        events' = events \o emit("ended", ended, results, cur, nstart)
    /\ hist' = [hist EXCEPT ![cur].outcome = "returned"]
    /\ thread' = "idle"
    /\ UNCHANGED <<ended, err_raised, err_code, args, run_args, cur, instance,
                   nstart, log>>
    /\ UNCHANGED <<table_vars, plain>>

\* The event loop delivers a status emission to _StatusBridge.__send_info
StatusEvent ==
    /\ events # <<>>
    /\ Head(events).sig = "status"
    /\ \E outcome \in DanglingOutcomes :
        LET r == send_info(items, Head(events), outcome)
        IN  /\ items' = r.items
            /\ err' = r.err
    /\ events' = Tail(events)
    /\ last' = Call("deliver", Head(events).id)
    /\ UNCHANGED <<infos, successed_row, disable_successed, default_check_state,
                   batch, functions, queue, nextId, since>>
    /\ UNCHANGED <<ended, err_raised, err_code, args, thread, run_args, cur,
                   instance, nstart, hist, log, plain>>

\* The event loop runs the end callback, which calls set_result(result)
EndedEvent ==
    /\ events # <<>>
    /\ Head(events).sig = "ended"
    /\ LET results == Head(events).val
           r == set_result(T, results, NoneArg, disable_successed)
       IN  /\ Store(r)
           /\ last' = [Call("set_result", Len(results)) EXCEPT
                         !.hit = r.hit,
                         !.en = [i \in 1 .. Len(items) |-> items[i].en]]
    /\ since' = Edit("applied")
    /\ log' = log \o invoke(Head(events))
    /\ events' = Tail(events)
    /\ UNCHANGED <<disable_successed, default_check_state, batch, functions,
                   queue, nextId>>
    /\ UNCHANGED <<ended, err_raised, err_code, args, thread, run_args, cur,
                   instance, nstart, hist, plain>>

\* The event loop runs the err callback with the err code
ErrEvent ==
    /\ events # <<>>
    /\ Head(events).sig = "err_raised"
    /\ EventLoop

NextBatch ==
    \/ Populate
    \/ DispatchBatch
    \/ StartBatch
    \/ RunBegin
    \/ WorkerSend
    \/ BatchReturn
    \/ RunRaise
    \/ StatusEvent
    \/ EndedEvent
    \/ ErrEvent

SpecBatch == Init /\ [][NextBatch]_vars

\* --------------------------------------------------------------- ModelBase
\* A table of the base class: a row is the data it was made from. A data
\* that is no iterable of texts (None) makes add_data raise TypeError.
Datas == {"a", "b"}
BadData == NoneArg

SeqsUpTo(S, n) == UNION {[1 .. m -> S] : m \in 0 .. n}

\* ModelBase.add_data(data): the items are made from data, then appendRow
ModelBase_add_data(rows, data) ==
    IF data = BadData
    THEN [rows |-> rows, err |-> "TypeError"]
    ELSE [rows |-> Append(rows, data), err |-> "none"]

\* ModelBase.set_data: `for data in datas: self.add_data(data)`, left by the
\* first exception
RECURSIVE set_data_loop(_, _, _)
set_data_loop(rows, datas, i) ==
    IF i > Len(datas) THEN [rows |-> rows, err |-> "none"]
    ELSE LET r == ModelBase_add_data(rows, datas[i])
         IN  IF r.err # "none" THEN r ELSE set_data_loop(r.rows, datas, i + 1)

\* ModelBase.set_data(datas): self.clear(), then the loop
ModelBase_set_data(datas) == set_data_loop(<<>>, datas, 1)

\* ModelBase.add_data(data)
PlainAddData ==
    /\ Len(plain) < MaxRows
    /\ \E data \in Datas \cup {BadData} :
        LET r == ModelBase_add_data(plain, data)
        IN  /\ plain' = r.rows
            /\ err' = r.err
    /\ last' = Call("add_data", 0)
    /\ UNCHANGED <<items, infos, successed_row, disable_successed,
                   default_check_state, batch, functions, queue, nextId, since>>
    /\ UNCHANGED worker_vars

\* ModelBase.set_data(datas)
PlainSetData ==
    /\ \E datas \in SeqsUpTo(Datas \cup {BadData}, MaxRows) :
        LET r == ModelBase_set_data(datas)
        IN  /\ plain' = r.rows
            /\ err' = r.err
            /\ last' = [Call("set_data", Len(datas)) EXCEPT !.en = datas]
    /\ UNCHANGED <<items, infos, successed_row, disable_successed,
                   default_check_state, batch, functions, queue, nextId, since>>
    /\ UNCHANGED worker_vars

\* ModelBase.del_row(k)
PlainDelRow ==
    /\ \E k \in (0 - 1) .. Len(plain) :
        /\ plain' = ModelBase_del_row(plain, k)
        /\ last' = Call("del_row", k)
    /\ err' = "none"
    /\ UNCHANGED <<items, infos, successed_row, disable_successed,
                   default_check_state, batch, functions, queue, nextId, since>>
    /\ UNCHANGED worker_vars

\* ModelBase.clear()
PlainClear ==
    /\ plain' = <<>>
    /\ err' = "none"
    /\ last' = Call("clear", 0)
    /\ UNCHANGED <<items, infos, successed_row, disable_successed,
                   default_check_state, batch, functions, queue, nextId, since>>
    /\ UNCHANGED worker_vars

NextPlain ==
    \/ PlainAddData
    \/ PlainSetData
    \/ PlainDelRow
    \/ PlainClear

SpecPlain == Init /\ [][NextPlain]_vars

\* ------------------------------------------------------------------ claims
Args == {NoneArg} \cup BoolArgs

\* The identity of the row that entry j of the batch was made for.
BatchItem(j) == functions[batch[j][1]]

BatchItems == {BatchItem(j) : j \in 1 .. Len(batch)}

\* The results entry that set_result's scan hands to row i (1-based) of its:
\* the number of checked rows before it, 0 when the results run out first.
EntryOf(its, i, results) ==
    LET n == Cardinality({h \in 1 .. (i - 1) : its[h].chk = Checked})
    IN  IF its[i].chk = Checked /\ n < Len(results) THEN n + 1 ELSE 0

\* Row i of its shows what entry e does to row r.
Shows(r2, r, e) ==
    /\ r2.id = r.id
    /\ r2.text = e[2]
    /\ r2.chk = IF e[1] THEN Unchecked ELSE r.chk

\* A set_result call made for the batch, with as many results as entries,
\* after edits of the kind given only and before any other set_result.
ForBatch(kind, results) ==
    /\ since = kind
    /\ Len(results) = Len(batch)

\* Every batch row still in the table shows the entry of its batch position.
OwnEntries(results) ==
    \A j \in 1 .. Len(batch) :
        BatchItem(j) \in Ids(items) =>
            LET i == RowOf(items, BatchItem(j)) + 1
                h == RowOf(items', BatchItem(j)) + 1
            IN  h >= 1 /\ Shows(items'[h], items[i], results[j])

\* No row outside the batch is changed.
OthersKept ==
    \A i \in 1 .. Len(items) :
        items[i].id \notin BatchItems =>
            /\ i <= Len(items')
            /\ items'[i] = items[i]

\* C1: when rows of a dispatched batch were deleted with del_row before
\* set_result is called with the batch's results, every surviving batch row
\* receives the entry of its own batch position.
C1_DeletedRowSkipped ==
    [][last'.op = "set_result" =>
       \A results \in ResultsOfLen(last'.k), arg \in Args :
        (ForBatch("del_row", results) /\ SetResultCall(results, arg))
            => OwnEntries(results)]_vars

\* What info_and_signal_of_checked returned: one entry per checked row, in
\* increasing row order, carrying the payload the row was added with.
BatchOfChecked ==
    /\ WorkIds(batch) = checked_row(items)
    /\ \A j \in 1 .. Len(batch) : Tail(batch[j]) = items[batch[j][1] + 1].pay
    /\ \A i, j \in 1 .. Len(batch) : i < j => batch[i][1] < batch[j][1]
    /\ \A j \in 1 .. Len(batch) : BatchItem(j) = items[batch[j][1] + 1].id

\* C2: with no edits between dispatch and apply, the batch has one entry per
\* checked row in row order with the row's payload, and set_result with as
\* many results applies the i-th result to the i-th batch row and leaves the
\* rows that were not checked at dispatch as they were.
C2_RoundTrip ==
    [][/\ last'.op = "dispatch" => BatchOfChecked'
       /\ last'.op = "set_result" =>
          \A results \in ResultsOfLen(last'.k), arg \in Args :
            (ForBatch("none", results) /\ SetResultCall(results, arg))
                => /\ err' = "none"
                   /\ Len(items') = Len(items)
                   /\ OwnEntries(results)
                   /\ OthersKept]_vars

C2_Witness ==
    /\ last.op = "set_result"
    /\ last.k = 2
    /\ since = "applied"
    /\ Len(batch) = 2
    /\ Len(items) = 2
    /\ items[1].res = <<TRUE, "ok">> /\ items[1].chk = Unchecked
    /\ items[2].res = <<FALSE, "fail">> /\ items[2].chk = Checked

\* C3: when only check flags were changed between dispatch and set_result
\* (select_all, reverse_selection, clear_selection, add_data), set_result
\* applies each result to the row in the batch at that position and changes
\* no row outside the batch.
C3_BatchIsSnapshot ==
    [][last'.op = "set_result" =>
       \A results \in ResultsOfLen(last'.k), arg \in Args :
        (ForBatch("flags", results) /\ SetResultCall(results, arg))
            => OwnEntries(results) /\ OthersKept]_vars

\* The last result applied to row r was a success.
Succeeded(r) == r.res # <<>> /\ r.res[1]

\* C4: del_successed removes the rows whose applied result was success and
\* keeps, in their order, the rows no success was ever applied to.
C4_DelSuccessedExact ==
    [][last'.op = "del_successed" =>
        /\ \A i \in 1 .. Len(items') : ~Succeeded(items'[i])
        /\ SelectSeq(items', LAMBDA r : ~r.ever)
             = SelectSeq(items, LAMBDA r : ~r.ever)]_vars

C6_UpdateLandsOrDrops ==
    [][last'.op = "deliver" /\ Len(queue') < Len(queue) =>
        LET m == Head(queue)
            id == m.bridge[m.id]
        IN  IF id \in Ids(items)
            THEN /\ err' = "none"
                 /\ items' = [items EXCEPT ![RowOf(items, id) + 1].text = m.text]
            ELSE /\ err' = "none"
                 /\ items' = items]_vars

\* C7: every row of a batch is checked and enabled at dispatch.
C7_OnlySelectableDispatched ==
    last.op = "dispatch" =>
        \A j \in 1 .. Len(batch) :
            /\ items[batch[j][1] + 1].chk = Checked
            /\ items[batch[j][1] + 1].en

\* C8: a row to which set_result applies a succeeded entry becomes
\* unchecked, shows the entry's text, is recorded as succeeded, and is
\* disabled when the policy in effect is true and keeps its enabled flag
\* when it is false; the argument, when given, overrides the table default.
C8_SuccessEffect ==
    last.op = "set_result" =>
        \A row \in last.hit :
            LET r == items[row + 1]
                on == CASE last.arg = "True" -> TRUE
                        [] last.arg = "False" -> FALSE
                        [] OTHER -> disable_successed
            IN  r.res[1] =>
                    /\ r.chk = Unchecked
                    /\ r.text = r.res[2]
                    /\ row \in successed_row
                    /\ r.en = IF on THEN FALSE ELSE last.en[row + 1]

C8_Witness ==
    /\ last.op = "set_result"
    /\ last.arg = "False"
    /\ disable_successed
    /\ \E row \in last.hit :
        /\ items[row + 1].res[1]
        /\ items[row + 1].en

\* C9: a row to which set_result applies a failed entry changes in its
\* status text only, is not recorded as succeeded, and is in the next batch.
C9_FailureEffect ==
    [][last'.op = "set_result" =>
       \A results \in ResultsOfLen(last'.k), arg \in Args :
        SetResultCall(results, arg) =>
            \A i \in 1 .. Len(items) :
                LET e == EntryOf(items, i, results)
                IN  (e > 0 /\ ~results[e][1]) =>
                        /\ items'[i].id = items[i].id
                        /\ items'[i].chk = items[i].chk
                        /\ items'[i].en = items[i].en
                        /\ items'[i].text = results[e][2]
                        /\ (i - 1) \notin successed_row'
                        /\ (i - 1) \in WorkIds(info_of_checked(items', infos'))]_vars

\* C10: set_result with a results sequence of another length than the
\* batch, or called again for the same batch, raises and changes no row.
C10_MisuseRejected ==
    [][last'.op = "set_result" =>
       \A results \in ResultsOfLen(last'.k), arg \in Args :
        (/\ Len(batch) >= 1
         /\ \/ since = "none" /\ Len(results) # Len(batch)
            \/ since = "applied"
         /\ SetResultCall(results, arg))
            => /\ err' # "none"
               /\ items' = items
               /\ successed_row' = successed_row]_vars

\* The payload list has one entry per row, the payload the row was added
\* with.
InStep(its, inf) ==
    /\ Len(inf) = Len(its)
    /\ \A i \in 1 .. Len(its) : inf[i] = its[i].pay

\* The row numbers a scan that removes the checked rows one by one reports:
\* the j-th checked row has moved down by the j - 1 rows removed before it.
RemovalIndexes(its) ==
    LET C == checked_row(its)
    IN  [j \in 1 .. Cardinality(C) |->
            (CHOOSE p \in C : Cardinality({q \in C : q < p}) = j - 1) - (j - 1)]

\* C11: del_selected removes exactly the rows checked at call time, returns
\* the row number each had when it was removed, keeps the other rows in
\* their order, and leaves each remaining row with its own payload.
C11_DelSelected ==
    [][last'.op = "del_selected" =>
        /\ err' = "none"
        /\ items' = SelectSeq(items, LAMBDA r : r.chk # Checked)
        /\ del_selected(T).deleted = RemovalIndexes(items)
        /\ last'.k = Cardinality(checked_row(items))
        /\ InStep(items', infos')]_vars

C11_Witness ==
    /\ last.op = "del_selected"
    /\ last.k = 1
    /\ Len(items) = 1
    /\ items[1].id = 2

\* C12: in every reachable state the payload list has one entry per row and
\* the payload at position i is the one the row at position i was added with.
C12_PayloadsInStep == InStep(items, infos)

\* C13: chk_selected_cnt is the number of rows whose check state is Checked
\* and chk_enabled_cnt the number of rows whose checkbox is enabled.
C13_Counts ==
    /\ chk_selected_cnt(items) = Cardinality(checked_row(items))
    /\ chk_enabled_cnt(items)
         = Cardinality({i \in 1 .. Len(items) : items[i].en})

\* C14: all_selected is false on an empty table and otherwise true exactly
\* when every enabled row is checked.
C14_AllSelected ==
    all_selected(items) =
        (/\ Len(items) > 0
         /\ \A i \in 1 .. Len(items) : items[i].en => items[i].chk = Checked)

\* C15: select_all checks every enabled row and changes nothing else: not
\* the check state of a disabled row, the enabled flags, the row order or
\* the payloads.
C15_SelectAllFrame ==
    [][last'.op = "select_all" =>
        /\ Len(items') = Len(items)
        /\ infos' = infos
        /\ \A i \in 1 .. Len(items) :
            items'[i] = [items[i] EXCEPT
                           !.chk = IF items[i].en THEN Checked ELSE @]]_vars

C15_Witness ==
    /\ last.op = "select_all"
    /\ \E i, j \in 1 .. Len(items) :
        /\ ~items[i].en /\ items[i].chk = Unchecked
        /\ items[j].en /\ items[j].chk = Checked

\* The enabled rows that are checked, by the identity of the row.
EnabledChecked(its) ==
    {its[i].id : i \in {h \in 1 .. Len(its) : its[h].en /\ its[h].chk = Checked}}

\* The rows of its2 that are disabled in its are as they are in its.
DisabledKept(its, its2) ==
    /\ Len(its2) = Len(its)
    /\ \A i \in 1 .. Len(its) : ~its[i].en => its2[i] = its[i]

\* C16: after a reverse_selection call, a second call restores the set of
\* enabled rows that were checked before the first, whatever Qt.CheckState
\* the rows were given, and neither call changes a disabled row.
C16_ReverseTwice ==
    [][last'.op = "reverse_selection" =>
        /\ DisabledKept(items, items')
        /\ DisabledKept(items', reverse_selection(items'))
        /\ EnabledChecked(reverse_selection(items')) = EnabledChecked(items)]_vars

C16_Witness ==
    /\ last.op = "reverse_selection"
    /\ \E i, h \in 1 .. Len(items) :
        /\ items[i].en /\ items[i].chk = Checked
        /\ ~items[h].en /\ items[h].chk = PartiallyChecked

\* The logged calls of the given kind made for run n.
CallsFor(kind, n) == {i \in 1 .. Len(log) : log[i].kind = kind /\ log[i].run = n}

\* The logged invocations of the end callback handed to start() call n.
EndCalls(n) ==
    {i \in 1 .. Len(log) : log[i].kind = "ended" /\ log[i].cb = EndFunc(n)}

CompletedRun(n) ==
    /\ n <= Len(hist)
    /\ hist[n].launched /\ hist[n].end
    /\ hist[n].outcome = "returned"
    /\ ~hist[n].superseded

\* What may have been invoked for such a run: its end callback at most once
\* and with the value runner returned for the arguments of the call, and no
\* err callback.
CompletedRunSafe(n) ==
    CompletedRun(n) =>
        /\ Cardinality(EndCalls(n)) <= 1
        /\ \A i \in EndCalls(n) :
            log[i].val = Result(StartArgs(n)) /\ log[i].run = n
        /\ CallsFor("err_raised", n) = {}

\* C18: the end callback of a run that returns normally and is not
\* superseded is invoked exactly once, with the value returned, and no err
\* callback is invoked for the run.
C18_EndOnce ==
    /\ [](\A n \in 1 .. MaxStarts : CompletedRunSafe(n))
    /\ \A n \in 1 .. MaxStarts :
        CompletedRun(n) ~> (Cardinality(EndCalls(n)) = 1)

C18_Witness ==
    /\ CompletedRun(2)
    /\ Cardinality(EndCalls(2)) = 1
    /\ events = <<>>

\* C19: for every run whose unit of work raised and whose failure reached
\* the bridge, once its emissions are delivered: one warning, the err function of the start() call invoked
\* once with the call's code if one was given and no err function invoked
\* otherwise, and no end callback invoked for the run.
C19_FailureOnce ==
    \A n \in 1 .. Len(hist) :
        (/\ hist[n].launched
         /\ hist[n].outcome = "raised"
         /\ \A j \in 1 .. Len(events) : events[j].run # n)
        => /\ Cardinality(CallsFor("warning", n)) = 1
           /\ CallsFor("ended", n) = {}
           /\ IF hist[n].err = NoFunc
              THEN CallsFor("err_raised", n) = {}
              ELSE /\ Cardinality(CallsFor("err_raised", n)) = 1
                   /\ \A i \in CallsFor("err_raised", n) :
                       log[i].cb = hist[n].err /\ log[i].val = Code(n)

\* C20: no failure of the unit of work leaves run().
C20_NoEscape ==
    \A i \in 1 .. Len(log) : log[i].kind # "escape"

\* The event loop hands the waiting event of the given kind to its slot.
Delivers(kind) ==
    /\ events # <<>>
    /\ Head(events).sig = kind
    /\ events' = Tail(events)

\* C21: when the end callback of a batch runs, every status update the unit
\* of work issued for the batch has been delivered, and no status update of
\* a batch is delivered after the end callback of the batch has applied
\* set_result.
C21_TerminalLast ==
    [][/\ Delivers("ended") =>
            \A j \in 1 .. Len(events') :
                ~(events'[j].sig = "status" /\ events'[j].run = Head(events).run)
       /\ Delivers("status") =>
            CallsFor("ended", Head(events).run) = {}]_vars

C21_Witness ==
    /\ last.op = "set_result"
    /\ nstart >= 1
    /\ hist[1].outcome = "returned" /\ hist[1].sent >= 1
    /\ CallsFor("ended", 1) # {}
    /\ \E i \in 1 .. Len(items) : items[i].res # <<>> /\ items[i].text = items[i].res[2]

\* C22: status updates for one row are applied in the order they were
\* issued: the update delivered sets the text of its row, and every update
\* for the same row still waiting was issued after it.
C22_InOrder ==
    [][Delivers("status") =>
        LET m == Head(events)
            row == RowOf(items, m.bridge[m.id])
        IN  /\ row >= 0 => items'[row + 1].text = m.text
            /\ \A j \in 1 .. Len(events') :
                LET e == events'[j]
                IN  (e.sig = "status" /\ e.bridge[e.id] = m.bridge[m.id]) =>
                        \/ e.run > m.run
                        \/ e.run = m.run /\ e.at > m.at]_vars

C22_Witness ==
    /\ last.op = "deliver"
    /\ events # <<>>
    /\ Head(events).sig = "status"
    /\ Head(events).id = last.k
    /\ Head(events).at = 2
    /\ LET row == RowOf(items, Head(events).bridge[last.k])
       IN  row >= 0 /\ items[row + 1].text = StepText(1)

\* C23: once set_result has been applied for a batch, or the table was
\* cleared after a dispatch, the bridge made for the batch holds no
\* registered callback.
C23_BridgeReleased ==
    (since # "idle" /\ last.op \in {"set_result", "clear"})
        => DOMAIN functions = {}

\* C24: after set_data(datas) has returned or raised, the table holds
\* exactly the rows given, in the order given, or no row at all.
C24_SetDataAllOrNothing ==
    [][last'.op = "set_data" => (plain' = last'.en \/ plain' = <<>>)]_vars

\* C25: after the unit of work of the first batch has failed, every row
\* shows the text and holds the result it had before the dispatch.
C25_FailureLeavesRows ==
    (nstart = 1 /\ hist[1].outcome \in {"raised", "escaped"}) =>
        \A i \in 1 .. Len(items) :
            items[i].text = WAIT_TEXT /\ items[i].res = <<>>

\* C26: del_row(k) with k outside 0 .. rowCount - 1 changes neither the
\* rows nor the payload list nor the succeeded marks.
C26_InvalidIndexIgnored ==
    [][(last'.op = "del_row" /\ last'.k \notin Rows(items)) =>
        /\ items' = items
        /\ infos' = infos
        /\ successed_row' = successed_row]_vars

\* C27: the value handed to the end callback of a start() call is what
\* runner returned for the arguments of that same call.
C27_OwnResult ==
    \A i \in 1 .. Len(log) :
        log[i].kind = "ended" =>
            \E n \in 1 .. Len(hist) :
                log[i].cb = EndFunc(n) /\ log[i].val = Result(StartArgs(n))

\* C28: with disable-on-success off, del_successed does not remove a row
\* whose most recent result was a failure, also when an earlier result of
\* the row was a success.
C28_FailedAgainKept ==
    [][(last'.op = "del_successed" /\ ~disable_successed) =>
        \A i \in 1 .. Len(items) :
            (items[i].ever /\ ~Succeeded(items[i]))
                => items[i].id \in Ids(items')]_vars

\* C29: after clear() there is no row, no payload and no succeeded mark,
\* and del_successed removes no row to which no success was ever applied.
C29_FreshAfterClear ==
    [][/\ last'.op = "clear" =>
            items' = <<>> /\ infos' = <<>> /\ successed_row' = {}
       /\ last'.op = "del_successed" =>
            \A i \in 1 .. Len(items) :
                ~items[i].ever => items[i].id \in Ids(items')]_vars

====
